---- MODULE Spec2Model ----
(***************************************************************************)
(* A model of automated-alternating-lbs: the annotation enumerator         *)
(* (findBestProof.annotationGenerator), its randomized variant             *)
(* (findBestProof.probAnnotationGenerator), the per-annotation feasibility *)
(* search (findBestProof.binarySearch), the search driver (the __main__    *)
(* block of findBestProof.py) and the LP builder (buildLinearProgram).     *)
(*                                                                         *)
(* Python lists are sequences; a Python index i is position i+1.           *)
(* Trial exponents c are exact rationals, held as integers over a common   *)
(* denominator (see Den below), so that halving is exact.                  *)
(***************************************************************************)
EXTENDS Integers, Sequences, FiniteSets, TLC

VARIABLES
    \* ---- annotationGenerator(n): the generator object's frame
    gn,            \* its argument n
    gpc,           \* where the generator is suspended
    curr,          \* the working sequence curr
    gm,            \* the local m
    counter,       \* the local counter
    out,           \* the list handed out by the last yield
    yielded,       \* every list yielded so far, in order (history)
    \* ---- the LP oracle and binarySearch
    known,         \* solver status of every (annotation, c) LP solved so far
    low0, high0, depth0,   \* arguments of the outermost binarySearch call
    low, high, depth,      \* arguments of the current binarySearch call
    bpc,           \* where binarySearch is
    ret,           \* the value binarySearch returned: <<c, proof>>
    calls,         \* every binarySearch entry so far: <<low, high, depth, caller>> (history)
    lastq,         \* the last isFeasible() call: <<c, status, outcome>>
    \* ---- the driver (__main__ of findBestProof.py)
    dpc,           \* where the driver is
    proof_length, search_cap, search_depth,   \* command-line arguments
    annotation,    \* the loop variable
    c,             \* the probe's c
    i,             \* the probe's loop index
    best_c, best_annotations, best_proofs,
    probes,        \* the driver's own isFeasible() calls for this annotation: <<c, outcome>> (history)
    results,       \* <<annotation, annotation_best_c, annotation_best_proof>> produced (history)
    \* ---- buildLinearProgram
    lp,            \* the builder object under construction
    \* ---- probAnnotationGenerator(n) and its slowdownInsertIndexGenerator
    pa             \* the frames of the two generators

genVars == <<gn, gpc, curr, gm, counter, out, yielded>>
bsVars  == <<known, low0, high0, depth0, low, high, depth, bpc, ret, calls, lastq>>
drvVars == <<dpc, proof_length, search_cap, search_depth, annotation, c, i,
             best_c, best_annotations, best_proofs, probes, results>>
lpVars  == <<lp>>
paVars  == <<pa>>
vars    == <<genVars, bsVars, drvVars, lpVars, paVars>>

----------------------------------------------------------------------------
(* Bounds of the model *)

\* annotationGenerator is run for every n in 3 .. 2*MaxHalf+1
MaxHalf == 6

\* binarySearch alone is run for every depth in 0 .. MaxDepth, on every interval
\* [lo, lo+w] with lo in 0 .. MaxLow and w in 1 .. MaxWidth
MaxDepth == 6
MaxLow == 1
MaxWidth == 3

\* the driver is run for every proof_length in 3 .. 2*MaxProofHalf, every
\* search_cap in 0 .. MaxCap and every search_depth in 0 .. MaxSearchDepth
MaxProofHalf == 3
MaxCap == 1
MaxSearchDepth == 1

\* probAnnotationGenerator(n) is run for n = 3 .. 2*MaxProbHalf + 1
MaxProbHalf == 4

\* an LP is built for every annotation over {0, 1, 2} of length 1 .. MaxAnnLen
MaxAnnLen == 7

----------------------------------------------------------------------------
(* Arithmetic *)

RECURSIVE Pow2(_)
Pow2(e) == IF e <= 0 THEN 1 ELSE 2 * Pow2(e - 1)

----------------------------------------------------------------------------
(* Python list helpers *)

\* Python's s[i] accepts -len(s) <= i < len(s); a negative i counts from the end
InRange(s, idx) == -Len(s) <= idx /\ idx < Len(s)
Pos(s, idx) == IF idx < 0 THEN Len(s) + idx + 1 ELSE idx + 1
Get(s, idx) == s[Pos(s, idx)]
Set(s, idx, v) == [s EXCEPT ![Pos(s, idx)] = v]

\* [1, 0] * h
RECURSIVE Repeat10(_)
Repeat10(h) == IF h <= 0 THEN <<>> ELSE <<1, 0>> \o Repeat10(h - 1)

----------------------------------------------------------------------------
(* annotationGenerator (findBestProof.py) *)

\* the inner while loop: while curr[j] == 1: curr[j] = 0; curr[k] = 1; j -= 1; k -= 2
\* ok is FALSE when an index falls outside the list (Python raises IndexError)
RECURSIVE Walk(_, _, _)
Walk(cu, j, k) ==
    IF ~InRange(cu, j) THEN [curr |-> cu, j |-> j, ok |-> FALSE]
    ELSE IF Get(cu, j) = 1
         THEN IF ~InRange(cu, k) THEN [curr |-> cu, j |-> j, ok |-> FALSE]
              ELSE Walk(Set(Set(cu, j, 0), k, 1), j - 1, k - 2)
         ELSE [curr |-> cu, j |-> j, ok |-> TRUE]

\* Advance with k restarting from (n-3)-1, as in the older copy of the generator
AdvanceShortK(cu, m, n) ==
    IF ~(InRange(cu, m) /\ InRange(cu, m - 1))
    THEN [curr |-> cu, m |-> m, stop |-> FALSE, ok |-> FALSE]
    ELSE LET c1 == Set(cu, m, 0) IN
         IF Get(c1, m - 1) = 0
         THEN [curr |-> Set(c1, m - 1, 1), m |-> m - 1, stop |-> FALSE, ok |-> TRUE]
         ELSE LET w == Walk(c1, m - 1, (n - 3) - 1) IN
              IF ~w.ok THEN [curr |-> w.curr, m |-> m, stop |-> FALSE, ok |-> FALSE]
              ELSE IF w.j = 0
                   THEN [curr |-> w.curr, m |-> m, stop |-> TRUE, ok |-> TRUE]
                   ELSE [curr |-> Set(w.curr, w.j, 1), m |-> (n - 1) - 1,
                         stop |-> FALSE, ok |-> TRUE]

\* the code between one yield of the loop and the next: the new curr and m,
\* stop = the break was taken
Advance(cu, m, n) ==
    IF ~(InRange(cu, m) /\ InRange(cu, m - 1))
    THEN [curr |-> cu, m |-> m, stop |-> FALSE, ok |-> FALSE]
    ELSE LET c1 == Set(cu, m, 0) IN
         IF Get(c1, m - 1) = 0
         THEN [curr |-> Set(c1, m - 1, 1), m |-> m - 1, stop |-> FALSE, ok |-> TRUE]
         ELSE LET w == Walk(c1, m - 1, (n - 1) - 1) IN
              IF ~w.ok THEN [curr |-> w.curr, m |-> m, stop |-> FALSE, ok |-> FALSE]
              ELSE IF w.j = 0
                   THEN [curr |-> w.curr, m |-> m, stop |-> TRUE, ok |-> TRUE]
                   ELSE [curr |-> Set(w.curr, w.j, 1), m |-> (n - 1) - 1,
                         stop |-> FALSE, ok |-> TRUE]

\* output = curr[1:]; output.append(0)
Output(cu) == Tail(cu) \o <<0>>

\* yield v
Yield(v) == out' = v /\ yielded' = Append(yielded, v)

\* the first next(): from the top of the function to the first yield
GenStart ==
    /\ gpc = "start"
    /\ IF gn % 2 # 1
       THEN /\ gpc' = "assert_failed"
            /\ UNCHANGED <<curr, gm, counter, out, yielded>>
       ELSE IF gn = 3
       THEN /\ gpc' = "y3"
            /\ Yield(<<1, 0, 0>>)
            /\ UNCHANGED <<curr, gm, counter>>
       ELSE IF gn = 5
       THEN /\ gpc' = "y5a"
            /\ Yield(<<1, 1, 0, 0, 0>>)
            /\ UNCHANGED <<curr, gm, counter>>
       ELSE /\ curr' = <<0>> \o Repeat10((gn - 1) \div 2)
            /\ gm' = (gn - 1) - 1
            /\ counter' = 1
            /\ gpc' = "loop"
            /\ Yield(Output(curr'))
    /\ UNCHANGED gn

\* next() on the hard-coded branches n == 3 and n == 5
GenResumeSmall ==
    /\ gpc \in {"y3", "y5a", "y5b"}
    /\ IF gpc = "y5a"
       THEN gpc' = "y5b" /\ Yield(<<1, 0, 1, 0, 0>>)
       ELSE gpc' = "done" /\ UNCHANGED <<out, yielded>>
    /\ UNCHANGED <<gn, curr, gm, counter>>

\* next() inside the while loop: advance curr, then yield or break
GenResumeLoop ==
    /\ gpc = "loop"
    /\ LET adv == Advance(curr, gm, gn) IN
       IF ~adv.ok
       THEN gpc' = "index_error" /\ UNCHANGED <<curr, gm, counter, out, yielded>>
       ELSE /\ curr' = adv.curr
            /\ gm' = adv.m
            /\ IF adv.stop
               THEN gpc' = "done" /\ UNCHANGED <<counter, out, yielded>>
               ELSE /\ gpc' = "loop"
                    /\ counter' = counter + 1
                    /\ Yield(Output(adv.curr))
    /\ UNCHANGED gn

GenNext == GenStart \/ GenResumeSmall \/ GenResumeLoop

GenInitFor(n) ==
    /\ gn = n
    /\ gpc = "start"
    /\ curr = <<>>
    /\ gm = 0
    /\ counter = 0
    /\ out = <<>>
    /\ yielded = <<>>

GenIdle == GenInitFor(0)

\* the call annotationGenerator(n): a generator object that has not run yet
GenCreate(n) ==
    /\ gn' = n
    /\ gpc' = "start"
    /\ curr' = <<>>
    /\ gm' = 0
    /\ counter' = 0
    /\ out' = <<>>
    /\ yielded' = <<>>

----------------------------------------------------------------------------
(* buildLinearProgram(annotation, c, alpha).isFeasible(), seen from its callers.
   The solver is an external collaborator: the status of the LP of a pair
   (annotation, c) is any of pulp's statuses after a solve, but always the same
   one for the same pair (known remembers it for the annotation at hand).
   What the builder itself creates for an annotation is modelled in SpecLP. *)

LpStatuses == {"Optimal", "Infeasible", "Unbounded", "Undefined"}

\* what isFeasible() does with the solver's status
IsFeasible(status) ==
    IF status = "Optimal" THEN "True"
    ELSE IF status = "Infeasible" THEN "False"
    ELSE "ValueError"

\* the statuses the solve of the LP at cv can end with
StatusesAt(cv) == IF cv \in DOMAIN known THEN {known[cv]} ELSE LpStatuses

\* buildLinearProgram(annotation, cv, alpha).isFeasible() ends with status st
Solve(cv, st) ==
    /\ st \in StatusesAt(cv)
    /\ known' = (cv :> st) @@ known
    /\ lastq' = <<cv, st, IsFeasible(st)>>

\* buildLinearProgram(annotation, cv, alpha).getReadableProof(): the witness is
\* determined by the LP, that is by the annotation and cv
ReadableProof(ann, cv) == <<"proof", ann, cv>>

----------------------------------------------------------------------------
(* binarySearch (findBestProof.py) *)

\* mid = (high+low)/2
Mid(l, h) == (h + l) \div 2

\* the interval of the recursive call, feas = the LP at mid is feasible:
\* with the halves exchanged
NextIntervalSwapped(l, h, feas) == IF feas THEN <<l, Mid(l, h)>> ELSE <<Mid(l, h), h>>

\* the interval of the recursive call: the lower half whatever mid's LP says
NextIntervalAlwaysLower(l, h, feas) == <<l, Mid(l, h)>>

\* the interval of the recursive call, feas = the LP at mid is feasible
NextInterval(l, h, feas) == IF feas THEN <<Mid(l, h), h>> ELSE <<l, Mid(l, h)>>

\* the value returned at depth 0: always high
LeafValueAlwaysHigh(l, h, feasHigh) == h

\* the value returned at depth 0, feasHigh = the LP at high is feasible
LeafValue(l, h, feasHigh) == IF feasHigh THEN h ELSE l

\* a call binarySearch(annotation, l, h, d, alpha) made by who
BSCall(l, h, d, who) ==
    /\ low' = l /\ high' = h /\ depth' = d
    /\ bpc' = "entry"
    /\ calls' = Append(calls, <<l, h, d, who>>)

\* assert(buildLinearProgram(annotation, low, alpha).isFeasible() is True)
BSAssert ==
    /\ bpc = "entry"
    /\ \E st \in LpStatuses :
          /\ Solve(low, st)
          /\ bpc' = IF IsFeasible(st) = "ValueError" THEN "value_error"
                    ELSE IF IsFeasible(st) = "False" THEN "assert_failed"
                    ELSE IF depth = 0 THEN "leaf" ELSE "split"
    /\ UNCHANGED <<low0, high0, depth0, low, high, depth, ret, calls>>

\* if depth == 0: return the feasible end and its readable proof
BSLeaf ==
    /\ bpc = "leaf"
    /\ \E st \in LpStatuses :
          /\ Solve(high, st)
          /\ IF IsFeasible(st) = "ValueError"
             THEN bpc' = "value_error" /\ UNCHANGED ret
             ELSE /\ bpc' = "returned"
                  /\ LET v == LeafValue(low, high, IsFeasible(st) = "True") IN
                     ret' = <<v, ReadableProof(annotation, v)>>
    /\ UNCHANGED <<low0, high0, depth0, low, high, depth, calls>>

\* mid = (high+low)/2, and the recursive call on the half that mid's LP selects
BSSplit ==
    /\ bpc = "split"
    /\ \E st \in LpStatuses :
          /\ Solve(Mid(low, high), st)
          /\ IF IsFeasible(st) = "ValueError"
             THEN bpc' = "value_error" /\ UNCHANGED <<low, high, depth, calls>>
             ELSE LET iv == NextInterval(low, high, IsFeasible(st) = "True") IN
                  BSCall(iv[1], iv[2], depth - 1, "binarySearch")
    /\ UNCHANGED <<low0, high0, depth0, ret>>

BSRunning == bpc \in {"entry", "leaf", "split"}

BSStep == BSAssert \/ BSLeaf \/ BSSplit

----------------------------------------------------------------------------
(* The driver: the __main__ block of findBestProof.py.  A value v stands for
   the exponent v / Den, Den = 100 * 2^search_depth, so that search_start - 0.01,
   the doublings and the search_depth halvings are all exact. *)

Hundred == 100
Den == Hundred * Pow2(search_depth)

\* --search_start, at its default 1
SearchStart == Den

\* search_start - 0.01
InitialBest == SearchStart - Den \div Hundred

\* the best tuple after a result r: replace on a tie as well
UpdateBestGE(bc, ba, bp, ann, r, proof) ==
    IF r >= bc THEN <<r, <<ann>>, <<proof>>>> ELSE <<bc, ba, bp>>

\* the best tuple after a result r: no elif branch, ties are dropped
UpdateBestNoTie(bc, ba, bp, ann, r, proof) ==
    IF r > bc THEN <<r, <<ann>>, <<proof>>>> ELSE <<bc, ba, bp>>

\* the best tuple after annotation ann produced result r with witness proof
UpdateBest(bc, ba, bp, ann, r, proof) ==
    IF r > bc THEN <<r, <<ann>>, <<proof>>>>
    ELSE IF r = bc THEN <<bc, Append(ba, ann), Append(bp, proof)>>
    ELSE <<bc, ba, bp>>

\* the interval handed to binarySearch when cv is the first infeasible c: shifted up
SearchIntervalAbove(cv) == <<cv, cv * 2>>

\* the interval handed to binarySearch when cv is the first infeasible c: (c/2, c)
SearchInterval(cv) == <<cv \div 2, cv>>

\* assert(proof_length % 2 == 0); best_c = search_start-0.01; the empty lists;
\* the generator object annotationGenerator(proof_length-1) is created
DrvStart ==
    /\ dpc = "start"
    /\ IF proof_length % 2 # 0
       THEN /\ dpc' = "assert_failed"
            /\ UNCHANGED <<best_c, best_annotations, best_proofs, genVars>>
       ELSE /\ dpc' = "fetch"
            /\ best_c' = InitialBest
            /\ best_annotations' = <<>>
            /\ best_proofs' = <<>>
            /\ GenCreate(proof_length - 1)
    /\ UNCHANGED <<proof_length, search_cap, search_depth, annotation, c, i,
                   probes, results, bsVars>>

\* for annotation in annotationGenerator(proof_length-1): the next annotation,
\* or the end of the loop and the final prints
DrvFetch ==
    /\ dpc = "fetch"
    /\ GenNext
    /\ IF gpc' \in {"done", "assert_failed", "index_error"}
       THEN /\ dpc' = IF gpc' = "done" THEN "finished" ELSE "generator_error"
            /\ UNCHANGED <<annotation, probes, known, calls>>
       ELSE /\ dpc' = "check_start"
            /\ annotation' = out'
            /\ probes' = <<>>
            /\ known' = <<>>
            /\ calls' = <<>>
    /\ UNCHANGED <<proof_length, search_cap, search_depth, c, i,
                   best_c, best_annotations, best_proofs, results,
                   low0, high0, depth0, low, high, depth, bpc, ret, lastq>>

\* if buildLinearProgram(annotation, search_start, alpha).isFeasible() is False: continue
\* c = search_start
DrvCheckStart ==
    /\ dpc = "check_start"
    /\ \E st \in LpStatuses :
          /\ Solve(SearchStart, st)
          /\ probes' = Append(probes, <<SearchStart, IsFeasible(st)>>)
          /\ IF IsFeasible(st) = "ValueError"
             THEN dpc' = "value_error" /\ UNCHANGED <<c, i>>
             ELSE IF IsFeasible(st) = "False"
             THEN dpc' = "fetch" /\ UNCHANGED <<c, i>>
             ELSE dpc' = "probe" /\ c' = SearchStart /\ i' = 0
    /\ UNCHANGED <<proof_length, search_cap, search_depth, annotation,
                   best_c, best_annotations, best_proofs, results,
                   low0, high0, depth0, low, high, depth, bpc, ret, calls, genVars>>

\* one iteration of for i in range(search_cap): c *= 2, and on the first
\* infeasible c the call binarySearch(annotation, c/2, c, search_depth, alpha)
DrvProbe ==
    /\ dpc = "probe"
    /\ i < search_cap
    /\ c' = c * 2
    /\ \E st \in LpStatuses :
          /\ Solve(c', st)
          /\ probes' = Append(probes, <<c', IsFeasible(st)>>)
          /\ IF IsFeasible(st) = "ValueError"
             THEN /\ dpc' = "value_error"
                  /\ UNCHANGED <<i, low0, high0, depth0, low, high, depth, bpc, calls>>
             ELSE IF IsFeasible(st) = "False"
             THEN /\ dpc' = "searching"
                  /\ low0' = SearchInterval(c')[1]
                  /\ high0' = SearchInterval(c')[2]
                  /\ depth0' = search_depth
                  /\ BSCall(SearchInterval(c')[1], SearchInterval(c')[2],
                            search_depth, "driver")
                  /\ UNCHANGED i
             ELSE /\ dpc' = "probe"
                  /\ i' = i + 1
                  /\ UNCHANGED <<low0, high0, depth0, low, high, depth, bpc, calls>>
    /\ UNCHANGED <<proof_length, search_cap, search_depth, annotation,
                   best_c, best_annotations, best_proofs, results, ret, genVars>>

\* range(search_cap) is exhausted without a break: on to the next annotation
DrvCapReached ==
    /\ dpc = "probe"
    /\ i >= search_cap
    /\ dpc' = "fetch"
    /\ UNCHANGED <<proof_length, search_cap, search_depth, annotation, c, i,
                   best_c, best_annotations, best_proofs, probes, results,
                   bsVars, genVars>>

\* binarySearch runs on behalf of the driver
DrvSearch ==
    /\ dpc = "searching"
    /\ BSStep
    /\ UNCHANGED <<drvVars, genVars>>

\* binarySearch returned: the comparison with best_c, then break
DrvUpdate ==
    /\ dpc = "searching"
    /\ bpc = "returned"
    /\ LET nb == UpdateBest(best_c, best_annotations, best_proofs,
                            annotation, ret[1], ret[2]) IN
          /\ best_c' = nb[1]
          /\ best_annotations' = nb[2]
          /\ best_proofs' = nb[3]
    /\ results' = Append(results, <<annotation, ret[1], ret[2]>>)
    /\ bpc' = "idle"
    /\ dpc' = "fetch"
    /\ UNCHANGED <<proof_length, search_cap, search_depth, annotation, c, i, probes,
                   known, low0, high0, depth0, low, high, depth, ret, calls, lastq,
                   genVars>>

----------------------------------------------------------------------------
(* buildLinearProgram (buildLinearProgram.py): the builder object *)

\* maxNumClauses of the standalone script automated-alternating-lbs.py:
\* j += 1 on a speedup, and m = max(m, j) inside the loop, on the speedup branch
MaxNumClausesStandalone(ann) ==
    LET J[p \in 0 .. Len(ann)] ==
            IF p = 0 THEN 0
            ELSE IF ann[p] = 0 THEN J[p - 1] - 1 ELSE J[p - 1] + 1
        M[p \in 0 .. Len(ann)] ==
            IF p = 0 THEN 0
            ELSE IF ann[p] # 0 /\ J[p] > M[p - 1] THEN J[p] ELSE M[p - 1]
    IN M[Len(ann)] + 2

\* maxNumClauses of buildLinearProgram.py, the class findBestProof.py imports:
\* j runs over the annotation, and m = max(m, j) is executed once, after the loop
MaxNumClauses(ann) ==
    LET J[p \in 0 .. Len(ann)] ==
            IF p = 0 THEN 0
            ELSE IF ann[p] = 0 THEN J[p - 1] - 1 ELSE J[p - 1] + ann[p]
        m0 == 0
        m1 == IF J[Len(ann)] > m0 THEN J[Len(ann)] ELSE m0
    IN m1 + 2

\* a lower bound: NoBound when the lowBound argument is left out (pulp's default
\* None, a free variable), Bound(v) when v is passed
NoBound == <<>>
Bound(v) == <<v>>

\* pulp.LpVariable.dicts(name, indices, lowBound): one variable per index
LpVariableDicts(name, indices, lowBound) ==
    [k \in indices |-> [name |-> name, lowBound |-> lowBound]]

\* buildLinearProgram(annotation, c, alpha): __init__
LpConstruct ==
    /\ lp.pc = "new"
    /\ LET ann == lp.annotation
           m == MaxNumClauses(ann)
           n == Len(ann) + 1
       IN lp' = [pc |-> "constructed",
                 annotation |-> ann,
                 m |-> m,
                 n |-> n,
                 a |-> LpVariableDicts("a", (0 .. n - 1) \X (0 .. m - 1), NoBound),
                 b |-> LpVariableDicts("b", (0 .. n - 1) \X (0 .. m - 1), NoBound),
                 rand_speedup |-> FALSE,
                 random |-> (ann[1] = 2),
                 x |-> LpVariableDicts("x", 0 .. n - 1, Bound(0)),
                 constraints |-> <<>>]

\* the variables self.a[(i,j)], self.b[(i,j)] and self.x[i] as they occur in a
\* constraint
VarA(r, j) == <<"a", r, j>>
VarB(r, j) == <<"b", r, j>>
VarX(r) == <<"x", r>>

\* the dictionary lookup behind a variable finds its key
Created(V) ==
    IF V[1] = "a" THEN <<V[2], V[3]>> \in DOMAIN lp.a
    ELSE IF V[1] = "b" THEN <<V[2], V[3]>> \in DOMAIN lp.b
    ELSE V[2] \in DOMAIN lp.x

\* the right-hand sides the builder writes: a number, a variable, V - W, and
\* a variable times the product of the builder's parameters named in fs
Const(v) == <<"const", v>>
Of(V) == <<"var", V>>
Minus(V, W) == <<"minus", V, W>>
Times(fs, V) == <<"times", fs, V>>

\* self.lp_problem += V == e   and   self.lp_problem += V >= e
Eq(V, e) == <<V, "==", e>>
Ge(V, e) == <<V, ">=", e>>

\* the variables a constraint looks up
VarsOf(e) ==
    IF e[1] = "const" THEN {}
    ELSE IF e[1] = "var" THEN {e[2]}
    ELSE IF e[1] = "minus" THEN {e[2], e[3]}
    ELSE {e[3]}
ConVars(con) == {con[1]} \cup VarsOf(con[3])

\* for k in range(lo, hi + 1): the statements body[k], in order
ForRange(lo, hi, body) ==
    LET F[k \in lo .. hi + 1] == IF k > hi THEN <<>> ELSE body[k] \o F[k + 1]
    IN IF lo > hi THEN <<>> ELSE F[lo]

\* one statement self.lp_problem += con, at the given line of buildLinearProgram.py
At(line, con) == << <<line, con>> >>

\* addObjective: the sum of all a, all b and all x
LpAddObjective ==
    /\ lp.pc = "constructed"
    /\ lp' = [pc |-> "objective",
              objective |-> {VarA(k[1], k[2]) : k \in DOMAIN lp.a}
                            \cup {VarB(k[1], k[2]) : k \in DOMAIN lp.b}
                            \cup {VarX(k) : k \in DOMAIN lp.x}] @@ lp

\* the statements of addInitialConstraints, in order
InitialConstraints(n, m, rand_speedup) ==
    At(167, Ge(VarA(0, 0), Const(1)))
    \o At(168, Eq(VarB(0, 0), Const(1)))
    \o At(170, Ge(VarA(n - 1, 0), Const(1)))
    \o At(171, Eq(VarB(n - 1, 0), Const(1)))
    \o ForRange(1, m - 1, [k \in 1 .. m - 1 |->
           At(175, Eq(VarA(0, k), Const(0)))
           \o At(176, Eq(VarB(0, k), Const(0)))
           \o At(177, Eq(VarA(n - 1, k), Const(0)))
           \o At(178, Eq(VarB(n - 1, k), Const(0)))])
    \o At(181, Ge(VarA(0, 0), Of(VarA(n - 1, 0))))
    \o At(186, Eq(VarA(1, 0), Minus(VarA(0, 0), VarX(1))))
    \o At(187, Eq(VarB(1, 0), Const(1)))
    \o At(188, Eq(VarA(1, 1), Const(0)))
    \o At(189, Ge(VarB(1, 1), Of(VarX(1))))
    \o At(190, Ge(VarB(1, 1), Const(1)))
    \o At(192, Eq(VarA(1, 2), Of(VarX(1))))
    \o At(193, Ge(VarB(1, 2), Const(1)))
    \o At(194, Ge(VarB(1, 2), Of(VarX(1))))
    \o (IF rand_speedup
        THEN At(197, Eq(VarA(1, 3), Const(0))) \o At(198, Eq(VarB(1, 3), Const(1)))
        ELSE At(200, Eq(VarA(1, 3), Const(0))) \o At(201, Eq(VarB(1, 3), Const(0))))
    \o ForRange(4, m - 1, [k \in 4 .. m - 1 |->
           At(204, Eq(VarA(1, k), Const(0)))
           \o At(205, Eq(VarB(1, k), Const(0)))])

\* the statements of addSpeedupConstraints(i), in order
SpeedupConstraints(r, m) ==
    At(213, Ge(VarA(r, 0), Const(1)))
    \o At(214, Ge(VarA(r, 0), Minus(VarA(r - 1, 0), VarX(r))))
    \o At(215, Ge(VarB(r, 0), Of(VarB(r - 1, 0))))
    \o At(216, Eq(VarA(r, 1), Const(0)))
    \o At(217, Ge(VarB(r, 1), Of(VarX(r))))
    \o At(218, Ge(VarB(r, 1), Of(VarB(r - 1, 0))))
    \o At(219, Ge(VarA(r, 2), Of(VarA(r - 1, 1))))
    \o At(220, Ge(VarA(r, 2), Of(VarX(r))))
    \o At(221, Ge(VarB(r, 2), Of(VarB(r - 1, 1))))
    \o ForRange(3, m - 1, [k \in 3 .. m - 1 |->
           At(224, Eq(VarA(r, k), Of(VarA(r - 1, k - 1))))
           \o At(225, Eq(VarB(r, k), Of(VarB(r - 1, k - 1))))])

\* the statements of addSlowdownConstraints(i), in order
SlowdownConstraints(r, m) ==
    At(235, Ge(VarA(r, 0), Times(<<"c", "alpha">>, VarA(r - 1, 0))))
    \o At(236, Ge(VarA(r, 0), Times(<<"c">>, VarA(r - 1, 1))))
    \o At(237, Ge(VarA(r, 0), Times(<<"c">>, VarB(r - 1, 0))))
    \o At(238, Ge(VarA(r, 0), Times(<<"c">>, VarB(r - 1, 1))))
    \o At(239, Ge(VarA(r, 0), Const(1)))
    \o At(241, Eq(VarB(r, 0), Of(VarB(r - 1, 1))))
    \o ForRange(1, m - 2, [k \in 1 .. m - 2 |->
           At(244, Eq(VarA(r, k), Of(VarA(r - 1, k + 1))))
           \o At(245, Eq(VarB(r, k), Of(VarB(r - 1, k + 1))))])
    \o At(246, Eq(VarA(r, m - 1), Const(0)))
    \o At(247, Eq(VarB(r, m - 1), Const(0)))

\* running the statements in order: the first one that looks up a variable
\* that was not created raises KeyError, the ones before it have been added
Emit(entries) ==
    LET bad == {k \in 1 .. Len(entries) :
                   \E V \in ConVars(entries[k][2]) : ~Created(V)}
        stop == IF bad = {} THEN Len(entries) + 1
                ELSE CHOOSE k \in bad : \A q \in bad : k <= q
    IN [ok |-> bad = {}, added |-> SubSeq(entries, 1, stop - 1)]

\* where addAnnotationConstraints stands once line i - 1 is done
AfterLine(r) == IF r <= lp.n - 1 THEN "lines" ELSE "built"

\* addAnnotationConstraints, up to the end of addInitialConstraints
LpAddInitialConstraints ==
    /\ lp.pc = "objective"
    /\ LET e == Emit(InitialConstraints(lp.n, lp.m, lp.rand_speedup)) IN
       lp' = [pc |-> IF e.ok THEN AfterLine(2) ELSE "key_error",
              i |-> 2,
              constraints |-> lp.constraints \o e.added] @@ lp

\* one turn of the loop of addAnnotationConstraints, op == 0
LpAddSlowdownConstraints ==
    /\ lp.pc = "lines"
    /\ lp.annotation[lp.i] = 0
    /\ LET e == Emit(SlowdownConstraints(lp.i, lp.m)) IN
       lp' = [pc |-> IF e.ok THEN AfterLine(lp.i + 1) ELSE "key_error",
              i |-> IF e.ok THEN lp.i + 1 ELSE lp.i,
              constraints |-> lp.constraints \o e.added] @@ lp

\* one turn of the loop of addAnnotationConstraints, op != 0
LpAddSpeedupConstraints ==
    /\ lp.pc = "lines"
    /\ lp.annotation[lp.i] # 0
    /\ LET e == Emit(SpeedupConstraints(lp.i, lp.m)) IN
       lp' = [pc |-> IF e.ok THEN AfterLine(lp.i + 1) ELSE "key_error",
              i |-> IF e.ok THEN lp.i + 1 ELSE lp.i,
              constraints |-> lp.constraints \o e.added] @@ lp

\* self.lp_problem.solve(), the last statement of solveIfNotSolved
LpSolve ==
    /\ lp.pc = "built"
    /\ \E st \in LpStatuses : lp' = [pc |-> "solved", status |-> st] @@ lp

----------------------------------------------------------------------------
(* probAnnotationGenerator and slowdownInsertIndexGenerator (findBestProof.py).
   Positions and indices are Python's, counted from 0. *)

\* the positions probAnnotationGenerator collects in speedup_2s: every i >= 1
\* with annotation[i] == 1 and annotation[i-1] == 0
Speedup2s(ann) ==
    SelectSeq([q \in 1 .. Len(ann) - 1 |-> q],
              LAMBDA q : ann[q + 1] = 1 /\ ann[q] = 0)

\* the annotation after the loop that sets annotation[i] = 2 at these positions
Promote(ann) ==
    [q \in 1 .. Len(ann) |->
        IF q >= 2 /\ ann[q] = 1 /\ ann[q - 1] = 0 THEN 2 ELSE ann[q]]

\* for i in range(from, 0, -1): if B[i] == n: B[i] = 0; B[i-1] += 1
RECURSIVE CarryFrom(_, _, _)
CarryFrom(B, from, n) ==
    IF from < 1 THEN B
    ELSE CarryFrom(IF B[from + 1] = n
                   THEN [B EXCEPT ![from + 1] = 0, ![from] = B[from] + 1]
                   ELSE B,
                   from - 1, n)

\* one turn of the while loop of slowdownInsertIndexGenerator
LoopBody(B, n) ==
    CarryFrom([B EXCEPT ![Len(B)] = B[Len(B)] + 1], Len(B) - 1, n)

\* list.insert(pos, x), pos >= 0: past the end it appends
ListInsert(A, pos, x) ==
    LET q == IF pos > Len(A) THEN Len(A) ELSE pos
    IN SubSeq(A, 1, q) \o <<x>> \o SubSeq(A, q + 1, Len(A))

\* insertZeros(A, B), its loop: for idx, b in enumerate(B): A.insert(b+idx, 0)
\* (the statement before the loop, line 41, is not valid Python)
InsertZeros(A, B) ==
    LET F[q \in 0 .. Len(B)] ==
            IF q = 0 THEN A ELSE ListInsert(F[q - 1], B[q] + (q - 1), 0)
    IN F[Len(B)]

\* next() on probAnnotationGenerator at the head of its for loop: the next
\* annotation of annotationGenerator(n), its promotion, and the call of
\* slowdownInsertIndexGenerator(speedup_2s, n), up to B = A; k = len(A)
PaFetch ==
    /\ pa.pc = "fetch"
    /\ GenNext
    /\ IF gpc' \in {"done", "assert_failed", "index_error"}
       THEN pa' = [pc |-> IF gpc' = "done" THEN "done" ELSE "generator_error"] @@ pa
       ELSE pa' = [pc |-> "while",
                   annotation |-> Promote(out'),
                   A0 |-> Speedup2s(out'),
                   B |-> Speedup2s(out'),
                   idx_yielded |-> <<>>,
                   idx_done |-> FALSE] @@ pa

\* while(B[0] < n) on an empty list
SgIndexError ==
    /\ pa.pc = "while"
    /\ Len(pa.B) = 0
    /\ pa' = [pc |-> "index_error"] @@ pa
    /\ UNCHANGED genVars

\* while(B[0] < n): one turn of the loop
SgLoop ==
    /\ pa.pc = "while"
    /\ Len(pa.B) > 0
    /\ pa.B[1] < gn
    /\ pa' = [B |-> LoopBody(pa.B, gn)] @@ pa
    /\ UNCHANGED genVars

\* the loop is left: yield B, and probAnnotationGenerator yields
\* insertZeros(annotation, insert_0_idxs)
SgYield ==
    /\ pa.pc = "while"
    /\ Len(pa.B) > 0
    /\ pa.B[1] >= gn
    /\ pa' = [pc |-> "yielded",
              idx_yielded |-> Append(pa.idx_yielded, pa.B),
              annotation |-> InsertZeros(pa.annotation, pa.B),
              prob_yielded |-> Append(pa.prob_yielded,
                                      [promoted |-> pa.annotation,
                                       idxs |-> pa.B,
                                       result |-> InsertZeros(pa.annotation, pa.B)])] @@ pa
    /\ UNCHANGED genVars

\* next() on probAnnotationGenerator after a yield: slowdownInsertIndexGenerator
\* is resumed after its yield B and ends, which ends the inner for loop
PaResume ==
    /\ pa.pc = "yielded"
    /\ pa' = [pc |-> "fetch", idx_done |-> TRUE] @@ pa
    /\ UNCHANGED genVars

----------------------------------------------------------------------------
(* Start states of the components that a specification leaves unused *)

BsIdle ==
    /\ known = <<>>
    /\ low0 = 0 /\ high0 = 0 /\ depth0 = 0
    /\ low = 0 /\ high = 0 /\ depth = 0
    /\ bpc = "idle"
    /\ ret = <<>>
    /\ calls = <<>>
    /\ lastq = <<>>

DrvIdleWith(ann) ==
    /\ dpc = "idle"
    /\ proof_length = 0 /\ search_cap = 0 /\ search_depth = 0
    /\ annotation = ann
    /\ c = 0 /\ i = 0
    /\ best_c = 0 /\ best_annotations = <<>> /\ best_proofs = <<>>
    /\ probes = <<>>
    /\ results = <<>>

DrvIdle == DrvIdleWith(<<>>)

LpIdle == lp = [pc |-> "idle"]

PaIdle == pa = [pc |-> "idle"]

----------------------------------------------------------------------------
(* SpecGen: annotationGenerator(n) driven to exhaustion, for each n *)

InitGen ==
    /\ \E n \in 3 .. 2 * MaxHalf + 1 : GenInitFor(n)
    /\ BsIdle /\ DrvIdle /\ LpIdle /\ PaIdle

NextGen ==
    \/ GenStart /\ UNCHANGED <<bsVars, drvVars, lpVars, paVars>>
    \/ GenResumeSmall /\ UNCHANGED <<bsVars, drvVars, lpVars, paVars>>
    \/ GenResumeLoop /\ UNCHANGED <<bsVars, drvVars, lpVars, paVars>>

SpecGen == InitGen /\ [][NextGen]_vars

----------------------------------------------------------------------------
(* The data model's annotation invariants (spec section 3) *)

\* running quantifier count after the first p steps: +2 for the first step,
\* then +1 per speedup and -1 per slowdown
RECURSIVE QCount(_, _)
QCount(s, p) ==
    IF p = 0 THEN 0
    ELSE QCount(s, p - 1) + (IF p = 1 THEN 2 ELSE IF s[p] = 0 THEN -1 ELSE 1)

ValidAnnotation(s) ==
    /\ Len(s) >= 1
    /\ s[1] = 1
    /\ s[Len(s)] = 0
    /\ \A p \in 1 .. Len(s) : QCount(s, p) >= 0
    /\ QCount(s, Len(s)) = 0

\* valid, and the count stays positive until the last step
StrictlyValid(s) ==
    /\ ValidAnnotation(s)
    /\ \A p \in 1 .. Len(s) - 1 : QCount(s, p) >= 1

BinaryLists(n) == [1 .. n -> {0, 1}]

RECURSIVE Catalan(_)
Catalan(k) == IF k = 0 THEN 1 ELSE (Catalan(k - 1) * 2 * (2 * k - 1)) \div (k + 1)

YieldedSet == {yielded[k] : k \in 1 .. Len(yielded)}

GenRunning == gpc \in {"start", "y3", "y5a", "y5b", "loop"}

(* C1 (as amended): for odd n in 3 .. 2*MaxHalf+1 annotationGenerator(n) never
   fails and never stalls; every list it yields has length n, starts with 1, ends
   with 0, has running quantifier count >= 0 at every prefix and 0 at the end, and
   differs from every list yielded before; when it is exhausted it has yielded
   Catalan((n-1)/2) lists, which are exactly the valid lists whose count stays
   >= 1 until the last step; for n = 5 they are [1,1,0,0,0] and [1,0,1,0,0]. *)
C1_Enumerator ==
    gn % 2 = 1 =>
        /\ gpc \notin {"assert_failed", "index_error"}
        /\ GenRunning => ENABLED GenNext
        /\ Len(yielded) <= Catalan((gn - 1) \div 2)
        /\ \A k \in 1 .. Len(yielded) :
              /\ Len(yielded[k]) = gn
              /\ ValidAnnotation(yielded[k])
              /\ k < Len(yielded) => yielded[k] # yielded[Len(yielded)]
        /\ gpc = "done" =>
              /\ Len(yielded) = Catalan((gn - 1) \div 2)
              /\ YieldedSet = {s \in BinaryLists(gn) : StrictlyValid(s)}
              /\ gn = 5 => YieldedSet = {<<1, 1, 0, 0, 0>>, <<1, 0, 1, 0, 0>>}

\* the generator exhausted for the largest n, all its lists yielded
C1_Witness ==
    /\ gpc = "done"
    /\ gn = 2 * MaxHalf + 1
    /\ Len(yielded) = Catalan(MaxHalf)
    /\ Len(yielded) > 100

(* C1 (as stated): when annotationGenerator(n) is exhausted, the lists it yielded
   are exactly the valid binary annotations of length n (start with 1, end with 0,
   count >= 0 at every prefix and 0 at the end). *)
C1_AllValidYielded ==
    (gn % 2 = 1 /\ gpc = "done") =>
        YieldedSet = {s \in BinaryLists(gn) : ValidAnnotation(s)}

----------------------------------------------------------------------------
(* SpecSearch: one call binarySearch(annotation, low, high, depth, alpha) from
   outside, on any LP oracle.  A value v stands for the exponent v / 2^depth0,
   so that the depth0 halvings of [low0, high0] are exact.  The caller may have
   solved the LPs at the two ends before the call, as the driver does. *)

\* what the caller can know of the LPs at l and h when it calls
CallerKnowledge(l, h) ==
    UNION {[S -> {"Optimal", "Infeasible"}] : S \in SUBSET {l, h}}

InitSearch ==
    /\ \E d \in 0 .. MaxDepth, lo \in 0 .. MaxLow, w \in 1 .. MaxWidth :
          /\ depth0 = d
          /\ low0 = lo * Pow2(d)
          /\ high0 = (lo + w) * Pow2(d)
    /\ low = low0 /\ high = high0 /\ depth = depth0
    /\ bpc = "entry"
    /\ calls = << <<low0, high0, depth0, "caller">> >>
    /\ known \in CallerKnowledge(low0, high0)
    /\ ret = <<>>
    /\ lastq = <<>>
    /\ GenIdle /\ DrvIdleWith(<<1, 1, 0, 0, 0>>) /\ LpIdle /\ PaIdle

NextSearch ==
    \/ BSAssert /\ UNCHANGED <<genVars, drvVars, lpVars, paVars>>
    \/ BSLeaf /\ UNCHANGED <<genVars, drvVars, lpVars, paVars>>
    \/ BSSplit /\ UNCHANGED <<genVars, drvVars, lpVars, paVars>>

SpecSearch == InitSearch /\ [][NextSearch]_vars

----------------------------------------------------------------------------
(* What a run has observed of the feasibility predicate *)

Observed == DOMAIN known
Feasible(cv) == cv \in Observed /\ IsFeasible(known[cv]) = "True"
Infeasible(cv) == cv \in Observed /\ IsFeasible(known[cv]) = "False"

\* every LP solved so far was classified: feasibility behaved as a predicate
PredicateObserved == \A p \in Observed : IsFeasible(known[p]) \in {"True", "False"}

\* the observations fit a predicate that is monotone decreasing in c
MonotoneObserved ==
    \A p, q \in Observed : (p <= q /\ Feasible(q)) => Feasible(p)

\* 2^-(depth0-1) * (high0 - low0)
C2_Step == (2 * (high0 - low0)) \div Pow2(depth0)

(* C2: with a deterministic feasibility predicate that is monotone decreasing
   in c, low < high, feasible(low), not feasible(high) and depth D >= 1,
   binarySearch returns c_best with feasible(c_best), and
   c_best + 2^-(D-1) * (high - low) is infeasible: under every monotone
   predicate that agrees with what the run observed and has high infeasible,
   that is, an infeasible point (observed, or high itself) lies at or below it. *)
C2_BinarySearchResolution ==
    ( /\ bpc = "returned"
      /\ depth0 >= 1
      /\ low0 < high0
      /\ PredicateObserved
      /\ MonotoneObserved
      /\ Feasible(low0)
      /\ ~Feasible(high0) )
    => /\ Feasible(ret[1])
       /\ \E p \in {q \in Observed : Infeasible(q)} \cup {high0} :
             p <= ret[1] + C2_Step

\* the spec's instance low=1.0, high=4.0, depth=6 returned an interior value
C2_Witness ==
    /\ bpc = "returned"
    /\ depth0 = 6 /\ low0 = 1 * Pow2(6) /\ high0 = 4 * Pow2(6)
    /\ PredicateObserved /\ MonotoneObserved
    /\ Feasible(low0) /\ ~Feasible(high0)
    /\ low0 < ret[1] /\ ret[1] + C2_Step < high0

(* C3: with any deterministic feasibility predicate, monotone or not, if
   feasible(low) holds at the initial call then no call of binarySearch fails
   its entry assertion, the search does not stall and makes exactly depth
   recursive calls, and it returns c with low <= c <= high, feasible(c). *)
C3_FeasibleEvenIfNotMonotone ==
    (PredicateObserved /\ Feasible(low0)) =>
       /\ bpc # "assert_failed"
       /\ BSRunning => ENABLED BSStep
       /\ Len(calls) + depth = depth0 + 1
       /\ bpc = "returned" =>
             /\ Len(calls) = depth0 + 1
             /\ low0 <= ret[1] /\ ret[1] <= high0
             /\ Feasible(ret[1])

\* a search over a non-monotone predicate returned a value below a feasible one
C3_Witness ==
    /\ bpc = "returned"
    /\ PredicateObserved /\ Feasible(low0)
    /\ ~MonotoneObserved
    /\ depth0 >= 2
    /\ \E q \in Observed : Feasible(q) /\ q > ret[1]

----------------------------------------------------------------------------
(* SpecDriver: the driver run from its command line to its final prints *)

InitDriver ==
    /\ dpc = "start"
    /\ proof_length \in 3 .. 2 * MaxProofHalf
    /\ search_cap \in 0 .. MaxCap
    /\ search_depth \in 0 .. MaxSearchDepth
    /\ annotation = <<>>
    /\ c = 0 /\ i = 0
    /\ best_c = 0 /\ best_annotations = <<>> /\ best_proofs = <<>>
    /\ probes = <<>>
    /\ results = <<>>
    /\ GenIdle /\ BsIdle /\ LpIdle /\ PaIdle

NextDriver ==
    \/ DrvStart /\ UNCHANGED <<lpVars, paVars>>
    \/ DrvFetch /\ UNCHANGED <<lpVars, paVars>>
    \/ DrvCheckStart /\ UNCHANGED <<lpVars, paVars>>
    \/ DrvProbe /\ UNCHANGED <<lpVars, paVars>>
    \/ DrvCapReached /\ UNCHANGED <<lpVars, paVars>>
    \/ DrvSearch /\ UNCHANGED <<lpVars, paVars>>
    \/ DrvUpdate /\ UNCHANGED <<lpVars, paVars>>

SpecDriver == InitDriver /\ [][NextDriver]_vars

----------------------------------------------------------------------------
(* The driver's claims *)

BestTuple == <<best_c, best_annotations, best_proofs>>

\* the driver's calls of binarySearch for the annotation at hand
DriverCalls == SelectSeq(calls, LAMBDA e : e[4] = "driver")

\* the driver is done with the annotation at hand
AnnotationProcessed == dpc \in {"fetch", "finished"} /\ probes # <<>>

C4_Probes ==
    /\ Len(probes) <= search_cap + 1
    /\ \A k \in 1 .. Len(probes) :
          /\ probes[k][1] = SearchStart * Pow2(k - 1)
          /\ k < Len(probes) => probes[k][2] = "True"
    /\ (probes # <<>> /\ probes[1][2] = "False") =>
          /\ Len(probes) = 1
          /\ calls = <<>>
          /\ dpc \in {"fetch", "finished"}
    /\ Len(DriverCalls) <= 1
    /\ (DriverCalls # <<>>) =>
          /\ Len(probes) >= 2
          /\ probes[Len(probes)][2] = "False"
          /\ DriverCalls[1] = <<probes[Len(probes)][1] \div 2, probes[Len(probes)][1],
                                search_depth, "driver">>
          /\ 2 * DriverCalls[1][1] = DriverCalls[1][2]
    /\ (Len(probes) >= 2 /\ probes[Len(probes)][2] = "False") => Len(DriverCalls) = 1

C4_BestStep ==
    (BestTuple' # BestTuple /\ dpc # "start") =>
        /\ probes[1][2] = "True"
        /\ probes[Len(probes)][2] = "False"
        /\ dpc = "searching" /\ bpc = "returned"

(* C4: for each annotation the driver first checks feasibility at c_start; if
   that is infeasible it makes no further check and does not call binarySearch
   for the annotation, and the best tuple changes only for an annotation that
   was feasible at c_start.  Otherwise it checks c_start*2, c_start*4, ... in
   increasing order, at most search_cap values, each only after all earlier ones
   were feasible, and on the first infeasible c it calls binarySearch exactly
   once, with low = c/2, high = c and depth = search_depth. *)
C4_ProbeThenSearch == [](C4_Probes) /\ [][C4_BestStep]_vars

\* an annotation skipped at c_start after another one went through a doubling
\* and a binarySearch that refined the result
C4_Witness ==
    /\ dpc = "fetch"
    /\ probes = << <<SearchStart, "False">> >>
    /\ results # <<>>
    /\ results[1][2] > SearchStart

\* the probe of the annotation at hand stayed feasible through all search_cap doublings
CapReached ==
    /\ AnnotationProcessed
    /\ search_cap >= 1
    /\ Len(probes) = search_cap + 1
    /\ \A k \in 1 .. Len(probes) : probes[k][2] = "True"

(* C5: when the LP of an annotation is feasible at c_start and at every doubled
   value up to c_start*2^search_cap, the last feasible c is retained as the
   annotation's result and takes part in the global-best update: once the
   annotation is processed, a result c_start*2^search_cap is recorded for it and
   best_c is at least that value. *)
C5_CapReachedRetained ==
    CapReached =>
        /\ \E k \in 1 .. Len(results) :
              results[k][1] = annotation /\ results[k][2] = SearchStart * Pow2(search_cap)
        /\ best_c >= SearchStart * Pow2(search_cap)

\* the distance between neighbouring values binarySearch can return after the
\* first doubling: search_start / 2^search_depth
GridStep == SearchStart \div Pow2(search_depth)

\* DrvUpdate is taking place, with this result
Updating == Len(results') = Len(results) + 1
NewResult == results'[Len(results')]

Replaced ==
    BestTuple' = <<NewResult[2], <<NewResult[1]>>, <<NewResult[3]>>>>
Appended ==
    BestTuple' = <<best_c, Append(best_annotations, NewResult[1]),
                   Append(best_proofs, NewResult[3])>>

(* C6 (as amended): when a per-annotation result r is compared with best_c, the
   lists are replaced by the single new entry and best_c set to r exactly when
   r > best_c, by however little; the annotation and its witness are appended
   exactly when r = best_c; otherwise the best tuple is left alone. *)
C6_ExactUpdateRule ==
    [][Updating =>
          /\ NewResult = <<annotation, ret[1], ret[2]>>
          /\ NewResult[2] > best_c => Replaced
          /\ NewResult[2] = best_c => Appended
          /\ NewResult[2] < best_c => UNCHANGED BestTuple]_vars

\* a result one grid step above the current best replaced a non-empty list
C6_Witness ==
    /\ dpc = "fetch"
    /\ Len(results) >= 2
    /\ results[Len(results)][2] = results[Len(results) - 1][2] + GridStep
    /\ best_c = results[Len(results)][2]
    /\ best_annotations = <<annotation>>

(* C6 (as stated), with a tolerance of one grid step, for a result compared
   with the result of an earlier annotation: the lists are replaced only if r
   exceeds best_c by more than the tolerance, and r within the tolerance of
   best_c is appended. *)
C6_ToleranceUpdateRule ==
    [][(Updating /\ results # <<>>) =>
          /\ (Replaced /\ ~Appended) => NewResult[2] > best_c + GridStep
          /\ (NewResult[2] <= best_c + GridStep /\ NewResult[2] >= best_c - GridStep)
                => Appended]_vars

RECURSIVE MaxResult(_)
MaxResult(rs) ==
    IF rs = <<>> THEN InitialBest
    ELSE LET m == MaxResult(Tail(rs)) IN IF Head(rs)[2] > m THEN Head(rs)[2] ELSE m

\* the entries of rs whose result is v, in order
AtValue(rs, v) == SelectSeq(rs, LAMBDA e : e[2] = v)

(* C7: after any prefix of the enumeration, best_c is the maximum result
   produced so far (its initial value if none), best_annotations lists, in
   enumeration order, exactly the annotations whose result is that maximum, and
   best_proofs[k] is the witness produced for best_annotations[k]. *)
C7_BestIsMaxWithTies ==
    dpc \notin {"idle", "start", "assert_failed"} =>
        LET top == AtValue(results, MaxResult(results)) IN
        /\ best_c = MaxResult(results)
        /\ Len(best_annotations) = Len(top)
        /\ Len(best_proofs) = Len(top)
        /\ \A k \in 1 .. Len(top) :
              /\ best_annotations[k] = top[k][1]
              /\ best_proofs[k] = top[k][3]
              /\ best_proofs[k] = ReadableProof(best_annotations[k], best_c)

\* the run ended with two annotations tied at the maximum, after a smaller result
C7_Witness ==
    /\ dpc = "finished"
    /\ Len(best_annotations) = 2
    /\ best_annotations[1] # best_annotations[2]
    /\ best_c > SearchStart

----------------------------------------------------------------------------
(* SpecLP: a builder object made for any annotation *)

RECURSIVE ListsUpTo(_)
ListsUpTo(len) ==
    IF len = 0 THEN {}
    ELSE ListsUpTo(len - 1) \cup [1 .. len -> {0, 1, 2}]

InitLP ==
    /\ \E ann \in ListsUpTo(MaxAnnLen) : lp = [pc |-> "new", annotation |-> ann]
    /\ GenIdle /\ BsIdle /\ DrvIdle /\ PaIdle

NextLP ==
    \/ LpConstruct /\ UNCHANGED <<genVars, bsVars, drvVars, paVars>>
    \/ LpAddObjective /\ UNCHANGED <<genVars, bsVars, drvVars, paVars>>
    \/ LpAddInitialConstraints /\ UNCHANGED <<genVars, bsVars, drvVars, paVars>>
    \/ LpAddSlowdownConstraints /\ UNCHANGED <<genVars, bsVars, drvVars, paVars>>
    \/ LpAddSpeedupConstraints /\ UNCHANGED <<genVars, bsVars, drvVars, paVars>>
    \/ LpSolve /\ UNCHANGED <<genVars, bsVars, drvVars, paVars>>

SpecLP == InitLP /\ [][NextLP]_vars

----------------------------------------------------------------------------
(* The solver adapter's and the builder's claims *)

(* C8: isFeasible returns True for status Optimal or Unbounded, False for
   Infeasible, and raises only on a status that is none of these. *)
C8_UnboundedIsFeasible ==
    lastq # <<>> =>
        /\ lastq[2] \in {"Optimal", "Unbounded"} => lastq[3] = "True"
        /\ lastq[2] = "Infeasible" => lastq[3] = "False"
        /\ lastq[3] = "ValueError" => lastq[2] \notin {"Optimal", "Unbounded", "Infeasible"}

\* the count maxNumClauses keeps while it walks the annotation, after p symbols
RECURSIVE RunningCount(_, _)
RunningCount(ann, p) ==
    IF p = 0 THEN 0
    ELSE RunningCount(ann, p - 1) + (IF ann[p] = 0 THEN -1 ELSE ann[p])

MaxOf(S) == CHOOSE v \in S : \A w \in S : w <= v

(* C9: for every valid annotation, the width m of the builder is 2 plus the
   maximum of the running count over all prefixes, and is at least 3. *)
C9_WidthIsRunningMaxPlusTwo ==
    (lp.pc = "constructed" /\ ValidAnnotation(lp.annotation)) =>
        /\ lp.m = 2 + MaxOf({RunningCount(lp.annotation, p) : p \in 1 .. Len(lp.annotation)})
        /\ lp.m >= 3

(* C10: for a valid annotation of length L the builder has exactly the variables a[i,j], b[i,j] (0 <= i < n,
   0 <= j < m) and x[i] (0 <= i < n) with n = L+1, n*(2m+1) in all, each created
   with lower bound 0. *)
C10_VariablesNonNegative ==
    (lp.pc = "constructed" /\ ValidAnnotation(lp.annotation)) =>
        /\ lp.n = Len(lp.annotation) + 1
        /\ DOMAIN lp.a = (0 .. lp.n - 1) \X (0 .. lp.m - 1)
        /\ DOMAIN lp.b = (0 .. lp.n - 1) \X (0 .. lp.m - 1)
        /\ DOMAIN lp.x = 0 .. lp.n - 1
        /\ Cardinality(DOMAIN lp.a) + Cardinality(DOMAIN lp.b) + Cardinality(DOMAIN lp.x)
              = lp.n * (2 * lp.m + 1)
        /\ \A k \in DOMAIN lp.a : lp.a[k].lowBound = Bound(0)
        /\ \A k \in DOMAIN lp.b : lp.b[k].lowBound = Bound(0)
        /\ \A k \in DOMAIN lp.x : lp.x[k].lowBound = Bound(0)


\* addInitialConstraints has ended, with or without an error
InitialEnded == lp.pc \in {"lines", "built", "key_error", "solved"}

\* addAnnotationConstraints has ended, with or without an error
BuildEnded == lp.pc \in {"built", "key_error", "solved"}

\* the constraints on the variables of line r added by the statements at source
\* lines lo .. hi, in the order they were added
Family(lo, hi, r) ==
    SelectSeq(lp.constraints,
              LAMBDA e : e[1] \in lo .. hi /\ e[2][1][2] = r)

FamilySet(lo, hi, r) ==
    LET f == Family(lo, hi, r) IN {f[k][2] : k \in 1 .. Len(f)}

\* the constraints of S are what was added, each once
ExactlyEmitted(lo, hi, r, S) ==
    /\ FamilySet(lo, hi, r) = S
    /\ Len(Family(lo, hi, r)) = Cardinality(S)

(* C11: for an annotation whose first symbol is 1, once addInitialConstraints
   has run without a failed lookup, the constraints it added for line 1 (the
   first speedup) are exactly a[1,0] = a[0,0] - x[1], b[1,0] = 1, a[1,1] = 0,
   b[1,1] >= x[1], b[1,1] >= 1, a[1,2] = x[1], b[1,2] = 1, and a[1,k] = 0,
   b[1,k] = 0 for 3 <= k < m. *)
C11_FirstSpeedupFamily ==
    (InitialEnded /\ lp.pc # "key_error" /\ lp.annotation[1] = 1) =>
        ExactlyEmitted(186, 205, 1,
            {Eq(VarA(1, 0), Minus(VarA(0, 0), VarX(1))),
             Eq(VarB(1, 0), Const(1)),
             Eq(VarA(1, 1), Const(0)),
             Ge(VarB(1, 1), Of(VarX(1))),
             Ge(VarB(1, 1), Const(1)),
             Eq(VarA(1, 2), Of(VarX(1))),
             Eq(VarB(1, 2), Const(1))}
            \cup {Eq(VarA(1, k), Const(0)) : k \in 3 .. lp.m - 1}
            \cup {Eq(VarB(1, k), Const(0)) : k \in 3 .. lp.m - 1})

\* the slowdown family of line r
SlowdownFamily(r) ==
    {Ge(VarA(r, 0), Times(<<"c", "alpha">>, VarA(r - 1, 0))),
     Ge(VarA(r, 0), Times(<<"c">>, VarA(r - 1, 1))),
     Ge(VarA(r, 0), Times(<<"c">>, VarB(r - 1, 0))),
     Ge(VarA(r, 0), Times(<<"c">>, VarB(r - 1, 1))),
     Ge(VarA(r, 0), Const(1)),
     Eq(VarB(r, 0), Of(VarB(r - 1, 1))),
     Eq(VarA(r, lp.m - 1), Const(0)),
     Eq(VarB(r, lp.m - 1), Const(0))}
    \cup {Eq(VarA(r, k), Of(VarA(r - 1, k + 1))) : k \in 1 .. lp.m - 2}
    \cup {Eq(VarB(r, k), Of(VarB(r - 1, k + 1))) : k \in 1 .. lp.m - 2}

(* C12: once the LP of a valid annotation has been built, for every line i >= 2
   whose symbol annotation[i-1] is 0 the builder has added exactly the slowdown
   family of line i: the four bounds a[i,0] >= c*alpha*a[i-1,0],
   a[i,0] >= c*a[i-1,1], a[i,0] >= c*b[i-1,0], a[i,0] >= c*b[i-1,1] (alpha in
   the first only), a[i,0] >= 1, b[i,0] = b[i-1,1], the left shift
   a[i,k] = a[i-1,k+1], b[i,k] = b[i-1,k+1] for 1 <= k <= m-2, and
   a[i,m-1] = 0, b[i,m-1] = 0. *)
C12_SlowdownFamily ==
    (BuildEnded /\ ValidAnnotation(lp.annotation)) =>
        \A r \in 2 .. lp.n - 1 :
            lp.annotation[r] = 0 => ExactlyEmitted(235, 247, r, SlowdownFamily(r))

\* the constraints of a speedup line r on the indices 0 .. 2
SpeedupLowFamily(r) ==
    {Ge(VarA(r, 0), Const(1)),
     Ge(VarA(r, 0), Minus(VarA(r - 1, 0), VarX(r))),
     Ge(VarB(r, 0), Of(VarB(r - 1, 0))),
     Eq(VarA(r, 1), Const(0)),
     Ge(VarB(r, 1), Of(VarX(r))),
     Ge(VarB(r, 1), Of(VarB(r - 1, 0))),
     Ge(VarA(r, 2), Of(VarA(r - 1, 1))),
     Ge(VarA(r, 2), Of(VarX(r))),
     Ge(VarB(r, 2), Of(VarB(r - 1, 1)))}

\* the right shift by d of the indices from .. m-1 of line r
RightShift(r, from, d) ==
    {Eq(VarA(r, k), Of(VarA(r - 1, k - d))) : k \in from .. lp.m - 1}
    \cup {Eq(VarB(r, k), Of(VarB(r - 1, k - d))) : k \in from .. lp.m - 1}

(* C13: once the LP of a valid annotation has been built, for every line i >= 2
   whose symbol annotation[i-1] is 1 the builder has added exactly the
   two-quantifier speedup family of line i: the nine constraints on the
   indices 0 .. 2 and the equalities a[i,k] = a[i-1,k-1], b[i,k] = b[i-1,k-1]
   for 3 <= k < m (right shift by one). *)
C13_SpeedupFamily ==
    (BuildEnded /\ ValidAnnotation(lp.annotation)) =>
        \A r \in 2 .. lp.n - 1 :
            lp.annotation[r] = 1 =>
                ExactlyEmitted(213, 225, r, SpeedupLowFamily(r) \cup RightShift(r, 3, 1))

\* the annotation breaks a structural invariant of the data model
ViolatesStructure(s) ==
    \/ s[1] = 0
    \/ s[Len(s)] # 0
    \/ \E p \in 1 .. Len(s) : QCount(s, p) < 0
    \/ QCount(s, Len(s)) # 0

\* an annotation over {0, 1, 2} that keeps the invariants of the data model: the
\* structural ones, and a 2 only at the start or right after a 0
WellFormed(s) ==
    /\ ~ViolatesStructure(s)
    /\ \A p \in 2 .. Len(s) : s[p] = 2 => s[p - 1] = 0

(* C14: once the LP of a well-formed annotation has been built without a failed
   lookup, for every line i >= 2 whose symbol annotation[i-1] is 2 the constraints of
   line i on the indices 0 .. 2 are those of a code-1 speedup, and on b[i,3]
   and the indices k >= 4 they are b[i,3] = b[i-1,1] and a[i,k] = a[i-1,k-2],
   b[i,k] = b[i-1,k-2] (right shift by two). *)
C14_ThreeQuantifierFamily ==
    (BuildEnded /\ lp.pc # "key_error" /\ WellFormed(lp.annotation)) =>
        \A r \in 2 .. lp.n - 1 :
            lp.annotation[r] = 2 =>
                LET got == FamilySet(208, 229, r) IN
                /\ {con \in got : con[1][3] <= 2} = SpeedupLowFamily(r)
                /\ {con \in got : con[1] = VarB(r, 3) \/ con[1][3] >= 4}
                      = {Eq(VarB(r, 3), Of(VarB(r - 1, 1)))} \cup RightShift(r, 4, 2)

(* C15: once addInitialConstraints has run without a failed lookup for a
   well-formed annotation, the constraints of line 1 on index 3 are a[1,3] = 0, b[1,3] = 1 when
   annotation[0] = 2, and a[1,3] = 0, b[1,3] = 0 when annotation[0] = 1. *)
C15_OpeningGatedOnFirstSymbol ==
    (InitialEnded /\ lp.pc # "key_error" /\ WellFormed(lp.annotation)) =>
        LET got == {con \in FamilySet(186, 205, 1) : con[1][3] = 3} IN
        /\ lp.annotation[1] = 2 =>
              got = {Eq(VarA(1, 3), Const(0)), Eq(VarB(1, 3), Const(1))}
        /\ lp.annotation[1] = 1 =>
              got = {Eq(VarA(1, 3), Const(0)), Eq(VarB(1, 3), Const(0))}

(* C16: for an annotation that breaks a structural invariant (no speedup at the
   start, no slowdown at the end, running count below 0 or not 0 at the end),
   building ends with an InvalidAnnotation error: it does not complete and the
   LP is never solved. *)
C16_InvalidAnnotationRejected ==
    ViolatesStructure(lp.annotation) =>
        /\ lp.pc \notin {"built", "solved"}
        /\ BuildEnded => lp.pc = "invalid_annotation"

(* C19: for every annotation that annotationGenerator(L) yields, L odd and
   L >= 3, no statement of addInitialConstraints, addSpeedupConstraints or
   addSlowdownConstraints looks up a variable that was not created: every
   constraint added is over a[i,j], b[i,j] with 0 <= i < n, 0 <= j < m and x[i]
   with 0 <= i < n, and building does not end in a failed lookup. *)
C19_OnlyCreatedVariables ==
    (Len(lp.annotation) % 2 = 1 /\ Len(lp.annotation) >= 3
        /\ lp.annotation \in BinaryLists(Len(lp.annotation))
        /\ StrictlyValid(lp.annotation)) =>
        /\ lp.pc # "key_error"
        /\ lp.pc \notin {"new", "constructed", "objective"} =>
              \A k \in 1 .. Len(lp.constraints) :
                  \A V \in ConVars(lp.constraints[k][2]) :
                      /\ V[2] \in 0 .. lp.n - 1
                      /\ V[1] \in {"a", "b"} => V[3] \in 0 .. lp.m - 1

\* the LP of the annotation at hand at cv has been solved, with this outcome
SolvedAs(cv, st) == cv \in DOMAIN known /\ known[cv] = st

(* C18: in a run of the driver, every entry to binarySearch, the call made
   after the exponential probe and each recursive call, has low feasible and
   high infeasible, whatever the (deterministic) feasibility of the values in
   between; and a search that returns does so at depth 0 with the value low of
   its last call. *)
C18_EntryInvariant ==
    /\ \A k \in 1 .. Len(calls) :
          /\ SolvedAs(calls[k][1], "Optimal")
          /\ SolvedAs(calls[k][2], "Infeasible")
    /\ (dpc = "searching" /\ bpc = "returned") =>
          /\ depth = 0
          /\ calls[Len(calls)] = <<low, high, 0, "binarySearch">>
                \/ calls[Len(calls)] = <<low, high, 0, "driver">>
          /\ ret[1] = low

\* a search returned the midpoint: its recursive call was on the upper half
C18_Witness ==
    /\ dpc = "searching" /\ bpc = "returned"
    /\ Len(calls) >= 2
    /\ calls[2][4] = "binarySearch"
    /\ calls[2][1] > calls[1][1]
    /\ ret[1] = calls[2][1]

----------------------------------------------------------------------------
(* SpecProb: probAnnotationGenerator(n) driven until it ends or fails *)

InitProb ==
    /\ \E n \in 3 .. 2 * MaxProbHalf + 1 : GenInitFor(n)
    /\ pa = [pc |-> "fetch", annotation |-> <<>>, A0 |-> <<>>, B |-> <<>>,
             idx_yielded |-> <<>>, idx_done |-> FALSE, prob_yielded |-> <<>>]
    /\ BsIdle /\ DrvIdle /\ LpIdle

NextProb ==
    \/ PaFetch /\ UNCHANGED <<bsVars, drvVars, lpVars>>
    \/ SgIndexError /\ UNCHANGED <<bsVars, drvVars, lpVars>>
    \/ SgLoop /\ UNCHANGED <<bsVars, drvVars, lpVars>>
    \/ SgYield /\ UNCHANGED <<bsVars, drvVars, lpVars>>
    \/ PaResume /\ UNCHANGED <<bsVars, drvVars, lpVars>>

SpecProb == InitProb /\ [][NextProb]_vars

\* the index lists [b_1, ..., b_k] with a_i < b_i < n for every i
IndexLists(A, n) ==
    {b \in [1 .. Len(A) -> 0 .. n - 1] : \A q \in 1 .. Len(A) : A[q] < b[q]}

LexLess(u, v) ==
    \E q \in 1 .. Len(u) : u[q] < v[q] /\ \A t \in 1 .. q - 1 : u[t] = v[t]

NonZero(s) == SelectSeq(s, LAMBDA e : e # 0)

(* C17: for each annotation of annotationGenerator(n), n odd, with promoted
   positions a_1 < ... < a_k, every list slowdownInsertIndexGenerator yields is
   an index list [b_1, ..., b_k] with a_i < b_i < n, later than the ones before
   it in lexicographic order; once it is exhausted it has yielded all of them;
   and probAnnotationGenerator yields, per list, the promoted annotation with k
   extra SLOWDOWNs inserted. *)
C17_RandomizedEnumerator ==
    gn % 2 = 1 =>
        /\ \A j \in 1 .. Len(pa.idx_yielded) :
              /\ pa.idx_yielded[j] \in IndexLists(pa.A0, gn)
              /\ \A t \in 1 .. j - 1 : LexLess(pa.idx_yielded[t], pa.idx_yielded[j])
        /\ pa.idx_done =>
              {pa.idx_yielded[j] : j \in 1 .. Len(pa.idx_yielded)} = IndexLists(pa.A0, gn)
        /\ \A j \in 1 .. Len(pa.prob_yielded) :
              LET y == pa.prob_yielded[j] IN
              /\ Len(y.result) = Len(y.promoted) + Len(y.idxs)
              /\ NonZero(y.result) = NonZero(y.promoted)

====
